---- MODULE Spec2Model ----
(***************************************************************************)
(* Capture / scan lifecycle of the camera translation application.         *)
(*                                                                         *)
(* The state is the React state of App (src/App.tsx) and of CameraFeed     *)
(* (src/unnamed/part_000), together with everything that is pending        *)
(* outside React: inference calls in flight, setTimeout timers, camera and *)
(* screen-share acquisitions and FileReader loads.                         *)
(*                                                                         *)
(* React commits a render and then runs the passive effects whose          *)
(* dependencies changed. A handler is one action; it marks the effects     *)
(* whose dependencies it changed as dirty, and RunEffects runs them before *)
(* any other event is handled.                                             *)
(***************************************************************************)
EXTENDS Integers, Sequences, FiniteSets, TLC

\* ---- bounds of the model ------------------------------------------------
\* Asynchronous operations outstanding at once: inference calls in flight,
\* recovery timers, 100 ms reset timers, getUserMedia and getDisplayMedia
\* calls and FileReader loads, all together.
MaxPending == 3

\* ---- program constants --------------------------------------------------
HistoryLimit == 50     \* the argument of slice() in saveToHistory
AutoRetryDelay == 3000
ManualRetryDelay == 2000

\* ---- values -------------------------------------------------------------
Null == "null"
IDLE == "IDLE"
SCANNING == "SCANNING"
ERROR == "ERROR"
AppStates == {IDLE, SCANNING, ERROR}

LiveFrames == {"frame"}               \* what capture() reads from the video
Uploads == {"upload"}                \* what the user can pick from the gallery
Images == LiveFrames \cup Uploads

\* The answers of the remote service to generateContent, by what
\* translateImage does with them.
Responses ==
    {"items", "itemsNoSummary", "summaryOnly", "blank",
     "emptyBody", "nonJSON", "transport", "jsonNull"}

VARIABLES
    isAutoMode, appState, translationData, cameraFacing, screenStream,
    staticImage, contentRect, isSettingsOpen, history, autoSave,
    useOfflineMode, isScreenShareSupported, persisted,
    internalStream, camError, hasCleanup,
    initDirty, capDirty,
    calls, recoveryTimers, manualTimers, camPending, displayPending, reads,
    autoOrigin

appVars == <<isAutoMode, appState, translationData, cameraFacing, screenStream,
             staticImage, contentRect, isSettingsOpen, history, autoSave,
             useOfflineMode, isScreenShareSupported, persisted>>
feedVars == <<internalStream, camError, hasCleanup>>
effectVars == <<initDirty, capDirty>>
pendingVars == <<calls, recoveryTimers, manualTimers, camPending, displayPending, reads>>
vars == <<appVars, feedVars, effectVars, pendingVars, autoOrigin>>

\* ---- results ------------------------------------------------------------
NoResult == [none |-> TRUE]          \* translationData = null
NoRect == [none |-> TRUE]            \* contentRect = null

Translation(text) == IF text \in LiveFrames THEN "ko:frame" ELSE "ko:upload"

Item(text) == [original |-> text, translated |-> Translation(text),
               box_2d |-> <<100, 100, 300, 400>>]

EmptyTextResult ==
    [items |-> <<>>, summary |-> "Could not process image (Safety filter or Network error)."]
InvalidFormatResult ==
    [items |-> <<>>, summary |-> "Translation failed: Invalid response format."]
ConnectionErrorResult ==
    [items |-> <<>>, summary |-> "Connection error. Please check your internet."]

\* Values of valid JSON texts that are no result objects: 5, [] and {}.
JSONNumber == [number |-> 5]
JSONArray == [array |-> <<>>]
JSONObject == [fields |-> {}]

\* The response bodies, with those that are valid JSON but no result object.
ResponseBodies == Responses \cup {"jsonNumber", "jsonArray", "jsonObject"}

\* JSON.parse of the (fence-stripped) response text.
ParseJSON(img, resp) ==
    CASE resp = "items" -> [items |-> <<Item(img)>>, summary |-> "summary"]
      [] resp = "itemsNoSummary" -> [items |-> <<Item(img)>>, summary |-> ""]
      [] resp = "summaryOnly" -> [items |-> <<>>, summary |-> "No text detected"]
      [] resp = "blank" -> [items |-> <<>>, summary |-> ""]
      [] resp = "jsonNull" -> NoResult
      [] resp = "jsonNumber" -> JSONNumber
      [] resp = "jsonArray" -> JSONArray
      [] resp = "jsonObject" -> JSONObject

\* Mutant: the transport failure is not caught; the caller's catch block sees it.
translateImage_Throws(img, resp) ==
    CASE resp = "transport" -> NoResult
      [] resp = "emptyBody" -> EmptyTextResult
      [] resp = "nonJSON" -> InvalidFormatResult
      [] OTHER -> ParseJSON(img, resp)

translateImage(img, resp) ==
    CASE resp = "transport" -> ConnectionErrorResult
      [] resp = "emptyBody" -> EmptyTextResult
      [] resp = "nonJSON" -> InvalidFormatResult
      [] OTHER -> ParseJSON(img, resp)

translateImageOffline ==
    [items |-> << [original |-> "offline", translated |-> "offline mode",
                   box_2d |-> <<350, 200, 500, 800>>],
                  [original |-> "no connection", translated |-> "connection ok",
                   box_2d |-> <<550, 300, 650, 700>>] >>,
     summary |-> "Using downloaded language packs. (Simulation: Real local inference would run here using the stored models)."]

\* `if (result)`: null is the only falsy value the model's parser yields.
Truthy(result) == result # NoResult


\* ---- history (saveToHistory) ---------------------------------------------
\* The text saved for a result: one "original -> translated" line per item,
\* or the single line "[Summary Only] <summary>".
FullText(result) ==
    IF Len(result.items) > 0
    THEN [i \in 1..Len(result.items) |->
            <<result.items[i].original, "->", result.items[i].translated>>]
    ELSE << <<"[Summary Only]", result.summary>> >>

\* Mutant: the first n elements are kept.
Slice_FirstN(s, n) == SubSeq(s, 1, IF Len(s) < n THEN Len(s) ELSE n)

\* Array.prototype.slice(n): the elements from index n on.
Slice(s, n) == SubSeq(s, n + 1, Len(s))

SaveIgnored(result) == Len(result.items) = 0 /\ result.summary = ""

IsDuplicate(prev, result) ==
    /\ Len(prev) > 0
    /\ prev[1].fullText = FullText(result)
    /\ prev[1].summary = result.summary

NewItem(result) ==
    [summary |-> IF result.summary = "" THEN "No summary" ELSE result.summary,
     fullText |-> FullText(result)]

HistoryAfterSave(prev, result) ==
    IF SaveIgnored(result) \/ IsDuplicate(prev, result)
    THEN prev
    ELSE Slice(<<NewItem(result)>> \o prev, HistoryLimit)

\* Mutant: the list is written before it is cut to the limit.
PersistedAfterSave_Uncut(prev, store, result) ==
    IF SaveIgnored(result) \/ IsDuplicate(prev, result)
    THEN store
    ELSE [set |-> TRUE, value |-> <<NewItem(result)>> \o prev]

\* localStorage.setItem('jp_kr_history', JSON.stringify(newHistory))
PersistedAfterSave(prev, store, result) ==
    IF SaveIgnored(result) \/ IsDuplicate(prev, result)
    THEN store
    ELSE [set |-> TRUE, value |-> HistoryAfterSave(prev, result)]

NothingPersisted == [set |-> FALSE, value |-> <<>>]

\* ---- derived values of a render -------------------------------------------
\* activeStream = customStream || internalStream
ActiveStream ==
    IF screenStream THEN "screen" ELSE IF internalStream THEN "camera" ELSE Null

\* Dependencies of the auto-capture effect: isActive, capture (which changes
\* with handleFrameCapture, i.e. with each of its dependencies), error,
\* activeStream, staticImage.
CapDeps == <<isAutoMode, appState, isSettingsOpen, autoSave, useOfflineMode,
             staticImage, camError, ActiveStream>>

\* Dependencies of the camera initialisation effect: customStream,
\* staticImage, startCamera (which changes with facingMode).
InitDeps == <<screenStream, staticImage, cameraFacing>>

\* No effect is waiting to run: the next event can be handled.
Quiet == ~initDirty /\ ~capDirty

Marks ==
    /\ initDirty' = (InitDeps' # InitDeps)
    /\ capDirty' = (CapDeps' # CapDeps)

\* The asynchronous operations outstanding.
Pending ==
    Len(calls) + Len(recoveryTimers) + manualTimers + camPending
        + displayPending + Len(reads)

Room(n) == Pending + n <= MaxPending

\* A handler after which the camera initialisation effect may ask for the
\* camera leaves room for that request.
AcquireRoom == Room(1)

RemoveAt(s, i) == SubSeq(s, 1, i - 1) \o SubSeq(s, i + 1, Len(s))

\* ---- handleFrameCapture ---------------------------------------------------
\* Mutant: an open settings surface does not block the capture.
CaptureRefused_IgnoresSettings == appState = SCANNING

CaptureRefused == appState = SCANNING \/ isSettingsOpen

FreezesFrame == ~isAutoMode /\ staticImage = Null

NewCall(img) ==
    [img |-> img, auto |-> isAutoMode, save |-> autoSave, offline |-> useOfflineMode]

\* The synchronous part of handleFrameCapture, up to the await.
HandleFrameCapture(img) ==
    IF CaptureRefused
    THEN UNCHANGED <<appState, staticImage, calls>>
    ELSE /\ staticImage' = IF FreezesFrame THEN img ELSE staticImage
         /\ appState' = SCANNING
         /\ calls' = Append(calls, NewCall(img))

\* capture() of CameraFeed: the static image as it is, or a frame of the video
\* when the video is ready.
Capture(ready, frame) ==
    IF staticImage # Null
    THEN HandleFrameCapture(staticImage)
    ELSE IF ready
         THEN HandleFrameCapture(frame)
         ELSE UNCHANGED <<appState, staticImage, calls>>

\* The readiness the environment may report: a capture that would start a
\* call needs room for it, beside the camera request of the same commit.
Readiness ==
    IF CaptureRefused \/ Room(IF initDirty /\ ~screenStream /\ staticImage = Null THEN 2 ELSE 1)
    THEN BOOLEAN
    ELSE {FALSE}

\* The video element at a capture: its readyState, the raw size of its
\* frames (0 by 0 while unknown) and its displayed size. Three are ready,
\* one of them displayed at the aspect ratio of its frames; one has no data
\* yet, one no known size, one is displayed with no height.
Videos ==
    {[readyState |-> 4, vw |-> 1920, vh |-> 1080, cw |-> 400, ch |-> 300],
     [readyState |-> 2, vw |-> 1080, vh |-> 1920, cw |-> 1000, ch |-> 500],
     [readyState |-> 4, vw |-> 1000, vh |-> 1920, cw |-> 1000, ch |-> 1920],
     [readyState |-> 1, vw |-> 1920, vh |-> 1080, cw |-> 400, ch |-> 300],
     [readyState |-> 4, vw |-> 0, vh |-> 0, cw |-> 400, ch |-> 300],
     [readyState |-> 4, vw |-> 1920, vh |-> 1080, cw |-> 400, ch |-> 0]}

\* Mutant: a video without a current frame counts as ready.
VideoReady_AnyState(video) ==
    video.vw > 0 /\ video.vh > 0 /\ ~(video.cw = 0 \/ video.ch = 0)

\* The tests capture() makes before it draws a frame of the video.
VideoReady(video) ==
    /\ video.readyState >= 2 /\ video.vw > 0 /\ video.vh > 0
    /\ ~(video.cw = 0 \/ video.ch = 0)

\* capture() over this video element, within the budget of pending operations.
CaptureVideo(video, frame) ==
    /\ VideoReady(video) \in Readiness
    /\ Capture(VideoReady(video), frame)

\* Mutant: the static-image test of the effect is inverted.
AutoCaptureEnabled_StaticOnly ==
    isAutoMode /\ ~camError /\ ActiveStream # Null /\ staticImage # Null

\* The condition of the auto-capture effect.
AutoCaptureEnabled ==
    isAutoMode /\ ~camError /\ ActiveStream # Null /\ staticImage = Null


\* ---- initial state: App and CameraFeed just mounted, no effect run yet ------
\* The initial state but for the history and the offline preference, which
\* the mount effect loads from the store.
InitOthers ==
    /\ isAutoMode = FALSE
    /\ appState = IDLE
    /\ translationData = NoResult
    /\ cameraFacing = "environment"
    /\ screenStream = FALSE
    /\ staticImage = Null
    /\ contentRect = NoRect
    /\ isSettingsOpen = FALSE
    /\ autoSave = TRUE
    /\ isScreenShareSupported = TRUE   \* without support the share button is absent
    /\ internalStream = FALSE
    /\ camError = FALSE
    /\ hasCleanup = FALSE
    /\ initDirty = TRUE
    /\ capDirty = TRUE
    /\ calls = <<>>
    /\ recoveryTimers = <<>>
    /\ manualTimers = 0
    /\ camPending = 0
    /\ displayPending = 0
    /\ reads = <<>>
    /\ autoOrigin = "none"

\* Nothing is in the store.
Init ==
    /\ InitOthers
    /\ useOfflineMode = FALSE
    /\ history = <<>>
    /\ persisted = NothingPersisted

\* ---- effects of CameraFeed ------------------------------------------------
\* The camera is the source: no custom stream and no static image.
CameraWanted == ~screenStream /\ staticImage = Null

\* The camera initialisation effect. The cleanup of its previous run (there is
\* one when that run started the camera) stops and drops the internal stream;
\* then either the stream and the error are dropped, or startCamera() clears
\* the error and asks for the camera.
InitEffect ==
    /\ internalStream' = IF hasCleanup \/ ~CameraWanted THEN FALSE ELSE internalStream
    /\ camError' = FALSE
    /\ hasCleanup' = CameraWanted
    /\ camPending' = IF CameraWanted THEN camPending + 1 ELSE camPending

\* The effects of one commit, in the order of their declaration, with the
\* values of the render they belong to, over this video element.
RunEffectsOver(video, frame) ==
    /\ initDirty \/ capDirty
    /\ IF initDirty
       THEN InitEffect
       ELSE UNCHANGED <<internalStream, camError, hasCleanup, camPending>>
    /\ IF capDirty /\ AutoCaptureEnabled
       THEN CaptureVideo(video, frame)
       ELSE UNCHANGED <<appState, staticImage, calls>>
    /\ UNCHANGED <<isAutoMode, translationData, cameraFacing, screenStream,
                   contentRect, isSettingsOpen, history, autoSave, useOfflineMode,
                   isScreenShareSupported, persisted, recoveryTimers, manualTimers,
                   displayPending, reads, autoOrigin>>
    /\ Marks

\* The video is looked at only by a run that captures.
RunEffects ==
    IF capDirty /\ AutoCaptureEnabled
    THEN \E video \in Videos, frame \in LiveFrames : RunEffectsOver(video, frame)
    ELSE RunEffectsOver(CHOOSE video \in Videos : TRUE, CHOOSE frame \in LiveFrames : TRUE)

\* Mutant: the interval outlives the cleanup of its effect.
IntervalInstalled_NeverCleared == ActiveStream # Null

\* The 3 s interval exists: the last run of the auto-capture effect, which
\* saw the values of this render, installed it, and no cleanup has cleared it.
IntervalInstalled == AutoCaptureEnabled

\* A tick of that interval, over this video element.
AutoTickOver(video, frame) ==
    /\ Quiet
    /\ IntervalInstalled
    /\ CaptureVideo(video, frame)
    /\ UNCHANGED <<isAutoMode, translationData, cameraFacing, screenStream,
                   contentRect, isSettingsOpen, history, autoSave, useOfflineMode,
                   isScreenShareSupported, persisted, feedVars,
                   recoveryTimers, manualTimers, camPending, displayPending, reads,
                   autoOrigin>>
    /\ Marks

AutoTick == \E video \in Videos, frame \in LiveFrames : AutoTickOver(video, frame)

\* getUserMedia resolves: setInternalStream(mediaStream).
CameraAcquired ==
    /\ Quiet
    /\ camPending > 0
    /\ camPending' = camPending - 1
    /\ internalStream' = TRUE
    /\ initDirty' = FALSE
    /\ capDirty' = ~screenStream      \* a new stream object, unless hidden by customStream
    /\ UNCHANGED <<appVars, camError, hasCleanup, calls, recoveryTimers, manualTimers,
                   displayPending, reads, autoOrigin>>

\* getUserMedia rejects: setError({title, message}).
CameraFailed ==
    /\ Quiet
    /\ camPending > 0
    /\ camPending' = camPending - 1
    /\ camError' = TRUE
    /\ initDirty' = FALSE
    /\ capDirty' = TRUE               \* a new error object
    /\ UNCHANGED <<appVars, internalStream, hasCleanup, calls, recoveryTimers, manualTimers,
                   displayPending, reads, autoOrigin>>

\* "Retry Camera" on the error screen: startCamera().
RetryCamera ==
    /\ Quiet
    /\ camError /\ ~screenStream /\ staticImage = Null
    /\ AcquireRoom
    /\ camError' = FALSE
    /\ camPending' = camPending + 1
    /\ UNCHANGED <<appVars, internalStream, hasCleanup, calls, recoveryTimers, manualTimers,
                   displayPending, reads, autoOrigin>>
    /\ Marks


\* ---- the inference call ---------------------------------------------------
\* What the awaited call of handleFrameCapture yields for the answer resp.
CallResult(call, resp) ==
    IF call.offline THEN translateImageOffline ELSE translateImage(call.img, resp)

\* result.items && result.items.length > 0
HasItems(result) == "items" \in DOMAIN result /\ Len(result.items) > 0

\* Auto-save of a completed result, with the autoSave of the render that
\* started the call.
AutoSaves(call, result) == call.save /\ HasItems(result)

RetryDelay(call) == IF call.auto THEN AutoRetryDelay ELSE ManualRetryDelay

\* Mutant: the recovery timer is set in the one-shot branch only.
TimersAfterFailure_OneShotOnly(call) ==
    IF call.auto THEN recoveryTimers ELSE Append(recoveryTimers, RetryDelay(call))

\* The catch block: setTimeout(() => setAppState(IDLE), delay) in both modes.
TimersAfterFailure(call) == Append(recoveryTimers, RetryDelay(call))

\* Mutant: a result without items does not replace the displayed one.
DisplayedAfter_KeepsOnEmpty(result) ==
    IF Len(result.items) > 0 THEN result ELSE translationData

\* setTranslationData(result)
DisplayedAfter(result) == result

\* The continuation of handleFrameCapture after the await, for the i-th call
\* in flight and the value the awaited call resolved to; accepted tells
\* whether localStorage.setItem, if it is called, succeeds or throws into the
\* catch of saveToHistory.
CompleteStoring(i, result, accepted) ==
    /\ Quiet
    /\ i \in 1..Len(calls)
    /\ LET call == calls[i]
       IN  IF Truthy(result)
           THEN /\ translationData' = DisplayedAfter(result)
                /\ history' = IF AutoSaves(call, result)
                              THEN HistoryAfterSave(history, result) ELSE history
                /\ persisted' = IF AutoSaves(call, result) /\ accepted
                                THEN PersistedAfterSave(history, persisted, result)
                                ELSE persisted
                /\ appState' = IDLE
                /\ UNCHANGED recoveryTimers
           ELSE /\ appState' = ERROR
                /\ recoveryTimers' = TimersAfterFailure(call)
                /\ UNCHANGED <<translationData, history, persisted>>
    /\ calls' = RemoveAt(calls, i)
    /\ UNCHANGED <<isAutoMode, cameraFacing, screenStream, staticImage, contentRect,
                   isSettingsOpen, autoSave, useOfflineMode, isScreenShareSupported,
                   feedVars, manualTimers, camPending, displayPending, reads,
                   autoOrigin>>
    /\ Marks

\* The same, with a store that takes what is written to it.
CompleteWith(i, result) == CompleteStoring(i, result, TRUE)

\* The same, for the answer resp of the service.
Complete(i, resp) ==
    /\ i \in 1..Len(calls)
    /\ CompleteWith(i, CallResult(calls[i], resp))

\* The answers worth telling apart for a call: the offline stub ignores them.
AnswersTo(call) == IF call.offline THEN {"items"} ELSE Responses

InferenceCompletes ==
    \E i \in 1..Len(calls) : \E resp \in AnswersTo(calls[i]) : Complete(i, resp)

\* The same, over every body the service may answer with: translateImage
\* hands on whatever JSON.parse yields.
ParsedInferenceCompletes ==
    \E i \in 1..Len(calls) : \E resp \in ResponseBodies : Complete(i, resp)

\* The overlay is rendered (the settings are closed, there is data) and
\* data.items.map throws: data.items is undefined.
OverlayThrows ==
    /\ ~isSettingsOpen
    /\ translationData # NoResult
    /\ "items" \notin DOMAIN translationData

\* saveToHistory gets past its two returns: it builds an entry and writes.
SaveWrites(prev, result) == ~(SaveIgnored(result) \/ IsDuplicate(prev, result))

\* A call completes, its result is auto-saved, and setItem throws (the quota
\* is exceeded, or the browser gives the page no storage): the error is
\* logged and the updater returns the new history all the same.
AutoSaveRejected ==
    \E i \in 1..Len(calls) : \E resp \in AnswersTo(calls[i]) :
        /\ Truthy(CallResult(calls[i], resp))
        /\ AutoSaves(calls[i], CallResult(calls[i], resp))
        /\ SaveWrites(history, CallResult(calls[i], resp))
        /\ CompleteStoring(i, CallResult(calls[i], resp), FALSE)

\* A recovery timer set in the catch block fires: setAppState(IDLE).
RecoveryTimerFires ==
    /\ Quiet
    /\ \E i \in 1..Len(recoveryTimers) :
         recoveryTimers' = RemoveAt(recoveryTimers, i)
    /\ appState' = IDLE
    /\ UNCHANGED <<isAutoMode, translationData, cameraFacing, screenStream,
                   staticImage, contentRect, isSettingsOpen, history, autoSave,
                   useOfflineMode, isScreenShareSupported, persisted, feedVars,
                   calls, manualTimers, camPending, displayPending, reads,
                   autoOrigin>>
    /\ Marks

\* ---- capture mode -----------------------------------------------------------
\* The Auto Scan button is disabled while a static image is shown.
AutoButtonEnabled == staticImage = Null

toggleAutoMode ==
    /\ Quiet
    /\ AutoButtonEnabled
    /\ staticImage # Null => AcquireRoom
    /\ IF staticImage # Null
       THEN /\ staticImage' = Null              \* clearStaticImage()
            /\ translationData' = NoResult
            /\ contentRect' = NoRect
       ELSE UNCHANGED <<staticImage, translationData, contentRect>>
    /\ isAutoMode' = ~isAutoMode
    /\ appState' = IF isAutoMode THEN IDLE ELSE appState
    /\ autoOrigin' = IF isAutoMode THEN "none" ELSE "user"
    /\ UNCHANGED <<cameraFacing, screenStream, isSettingsOpen, history, autoSave,
                   useOfflineMode, isScreenShareSupported, persisted, feedVars,
                   pendingVars>>
    /\ Marks

\* Mutant: the scan state is not looked at.
ManualScanAccepted_IgnoresScanState == ~isAutoMode

\* The condition under which handleManualScan does anything.
ManualScanAccepted == ~isAutoMode /\ appState = IDLE

handleManualScan ==
    /\ Quiet
    /\ ManualScanAccepted => Room(1)
    /\ IF ManualScanAccepted
       THEN /\ isAutoMode' = TRUE
            /\ manualTimers' = manualTimers + 1   \* setTimeout(..., 100)
            /\ autoOrigin' = "manual"
       ELSE UNCHANGED <<isAutoMode, manualTimers, autoOrigin>>
    /\ UNCHANGED <<appState, translationData, cameraFacing, screenStream,
                   staticImage, contentRect, isSettingsOpen, history, autoSave,
                   useOfflineMode, isScreenShareSupported, persisted, feedVars,
                   calls, recoveryTimers, camPending, displayPending, reads>>
    /\ Marks

\* The 100 ms timer of handleManualScan fires: setIsAutoMode(false).
ManualTimerFires ==
    /\ Quiet
    /\ manualTimers > 0
    /\ manualTimers' = manualTimers - 1
    /\ isAutoMode' = FALSE
    /\ autoOrigin' = "none"
    /\ UNCHANGED <<appState, translationData, cameraFacing, screenStream,
                   staticImage, contentRect, isSettingsOpen, history, autoSave,
                   useOfflineMode, isScreenShareSupported, persisted, feedVars,
                   calls, recoveryTimers, camPending, displayPending, reads>>
    /\ Marks


\* ---- source switches ------------------------------------------------------
\* The flip button is shown without screen share and static image.
toggleCamera ==
    /\ Quiet
    /\ ~screenStream /\ staticImage = Null
    /\ AcquireRoom
    /\ cameraFacing' = IF cameraFacing = "environment" THEN "user" ELSE "environment"
    /\ UNCHANGED <<isAutoMode, appState, translationData, screenStream, staticImage,
                   contentRect, isSettingsOpen, history, autoSave, useOfflineMode,
                   isScreenShareSupported, persisted, feedVars, pendingVars,
                   autoOrigin>>
    /\ Marks

\* The share button is shown when sharing is supported and no static image is:
\* it stops the current share, or asks for one (getDisplayMedia).
toggleScreenShare ==
    /\ Quiet
    /\ isScreenShareSupported /\ staticImage = Null
    /\ IF screenStream
       THEN /\ AcquireRoom
            /\ screenStream' = FALSE
            /\ UNCHANGED displayPending
       ELSE /\ Room(1)
            /\ displayPending' = displayPending + 1
            /\ UNCHANGED screenStream
    /\ UNCHANGED <<isAutoMode, appState, translationData, cameraFacing, staticImage,
                   contentRect, isSettingsOpen, history, autoSave, useOfflineMode,
                   isScreenShareSupported, persisted, feedVars, calls, recoveryTimers,
                   manualTimers, camPending, reads, autoOrigin>>
    /\ Marks

\* getDisplayMedia resolves: setScreenStream(stream), a new stream object.
ScreenShareGranted ==
    /\ Quiet
    /\ displayPending > 0
    /\ displayPending' = displayPending - 1
    /\ screenStream' = TRUE
    /\ initDirty' = TRUE
    /\ capDirty' = TRUE
    /\ UNCHANGED <<isAutoMode, appState, translationData, cameraFacing, staticImage,
                   contentRect, isSettingsOpen, history, autoSave, useOfflineMode,
                   isScreenShareSupported, persisted, feedVars, calls, recoveryTimers,
                   manualTimers, camPending, reads, autoOrigin>>

\* getDisplayMedia rejects: the error is logged.
ScreenShareDenied ==
    /\ Quiet
    /\ displayPending > 0
    /\ displayPending' = displayPending - 1
    /\ UNCHANGED <<appVars, feedVars, effectVars, calls, recoveryTimers,
                   manualTimers, camPending, reads, autoOrigin>>

\* The shared track ends (the user stops sharing in the browser): onended.
ScreenShareEnded ==
    /\ Quiet
    /\ screenStream
    /\ AcquireRoom
    /\ screenStream' = FALSE
    /\ UNCHANGED <<isAutoMode, appState, translationData, cameraFacing, staticImage,
                   contentRect, isSettingsOpen, history, autoSave, useOfflineMode,
                   isScreenShareSupported, persisted, feedVars, pendingVars,
                   autoOrigin>>
    /\ Marks

\* The gallery button is shown without error, static image and result.
GalleryShown == appState # ERROR /\ staticImage = Null /\ translationData = NoResult

\* handleFileUpload: a file is picked and handed to a FileReader.
handleFileUpload(img) ==
    /\ Quiet
    /\ GalleryShown
    /\ Room(1)
    /\ reads' = Append(reads, img)
    /\ UNCHANGED <<appVars, feedVars, effectVars, calls, recoveryTimers,
                   manualTimers, camPending, displayPending, autoOrigin>>

\* reader.onload of handleFileUpload.
FileLoaded ==
    /\ Quiet
    /\ \E i \in 1..Len(reads) :
         /\ staticImage' = reads[i]
         /\ reads' = RemoveAt(reads, i)
    /\ translationData' = NoResult
    /\ isAutoMode' = FALSE
    /\ autoOrigin' = "none"
    /\ UNCHANGED <<appState, cameraFacing, screenStream, contentRect, isSettingsOpen,
                   history, autoSave, useOfflineMode, isScreenShareSupported,
                   persisted, feedVars, calls, recoveryTimers, manualTimers,
                   camPending, displayPending>>
    /\ Marks

\* The close button of a static image.
clearStaticImage ==
    /\ Quiet
    /\ staticImage # Null
    /\ AcquireRoom
    /\ staticImage' = Null
    /\ translationData' = NoResult
    /\ contentRect' = NoRect
    /\ UNCHANGED <<isAutoMode, appState, cameraFacing, screenStream, isSettingsOpen,
                   history, autoSave, useOfflineMode, isScreenShareSupported,
                   persisted, feedVars, pendingVars, autoOrigin>>
    /\ Marks

\* "Clear Text": shown without error, with a static image or a result.
ClearText ==
    /\ Quiet
    /\ appState # ERROR
    /\ staticImage # Null \/ translationData # NoResult
    /\ translationData' = NoResult
    /\ UNCHANGED <<isAutoMode, appState, cameraFacing, screenStream, staticImage,
                   contentRect, isSettingsOpen, history, autoSave, useOfflineMode,
                   isScreenShareSupported, persisted, feedVars, pendingVars,
                   autoOrigin>>
    /\ Marks

\* ---- settings and history ---------------------------------------------------
OpenSettings ==
    /\ Quiet
    /\ ~isSettingsOpen
    /\ isSettingsOpen' = TRUE
    /\ UNCHANGED <<isAutoMode, appState, translationData, cameraFacing, screenStream,
                   staticImage, contentRect, history, autoSave, useOfflineMode,
                   isScreenShareSupported, persisted, feedVars, pendingVars,
                   autoOrigin>>
    /\ Marks

CloseSettings ==
    /\ Quiet
    /\ isSettingsOpen
    /\ isSettingsOpen' = FALSE
    /\ UNCHANGED <<isAutoMode, appState, translationData, cameraFacing, screenStream,
                   staticImage, contentRect, history, autoSave, useOfflineMode,
                   isScreenShareSupported, persisted, feedVars, pendingVars,
                   autoOrigin>>
    /\ Marks

toggleAutoSave ==
    /\ Quiet
    /\ isSettingsOpen
    /\ autoSave' = ~autoSave
    /\ UNCHANGED <<isAutoMode, appState, translationData, cameraFacing, screenStream,
                   staticImage, contentRect, isSettingsOpen, history, useOfflineMode,
                   isScreenShareSupported, persisted, feedVars, pendingVars,
                   autoOrigin>>
    /\ Marks

toggleOfflineMode ==
    /\ Quiet
    /\ isSettingsOpen
    /\ useOfflineMode' = ~useOfflineMode
    /\ UNCHANGED <<isAutoMode, appState, translationData, cameraFacing, screenStream,
                   staticImage, contentRect, isSettingsOpen, history, autoSave,
                   isScreenShareSupported, persisted, feedVars, pendingVars,
                   autoOrigin>>
    /\ Marks

clearHistory ==
    /\ Quiet
    /\ isSettingsOpen
    /\ history' = <<>>
    /\ persisted' = NothingPersisted
    /\ UNCHANGED <<isAutoMode, appState, translationData, cameraFacing, screenStream,
                   staticImage, contentRect, isSettingsOpen, autoSave, useOfflineMode,
                   isScreenShareSupported, feedVars, pendingVars, autoOrigin>>
    /\ Marks

\* The overlay is hidden while the settings are open, and it renders its save
\* buttons (next to "View Summary" and in the summary card that button opens)
\* for a result with a summary only.
SaveButtonShown ==
    /\ ~isSettingsOpen
    /\ translationData # NoResult
    /\ translationData.summary # ""

\* The save button of the overlay: onSave = handleManualSave, with a store
\* that takes the write or one whose setItem throws.
ManualSave(accepted) ==
    /\ Quiet
    /\ SaveButtonShown
    /\ history' = HistoryAfterSave(history, translationData)
    /\ persisted' = IF accepted
                    THEN PersistedAfterSave(history, persisted, translationData)
                    ELSE persisted
    /\ UNCHANGED <<isAutoMode, appState, translationData, cameraFacing, screenStream,
                   staticImage, contentRect, isSettingsOpen, autoSave, useOfflineMode,
                   isScreenShareSupported, feedVars, pendingVars, autoOrigin>>
    /\ Marks

handleManualSave == ManualSave(TRUE)

\* The same, and setItem throws.
ManualSaveRejected ==
    /\ SaveButtonShown
    /\ SaveWrites(history, translationData)
    /\ ManualSave(FALSE)

\* ---- geometry: numbers ------------------------------------------------------
\* The geometry is computed on JavaScript numbers: binary floating point
\* with a 53-bit significand, every operation rounded to nearest, ties to
\* even. The magnitude of a finite number is held exactly, as a natural
\* number of units of 2^-FracBits, written in Limbs limbs of LimbBits bits,
\* least significant first. The magnitudes met here are below 2^25 and, when
\* not zero, no smaller than 2^-12 except for differences of two numbers
\* (which are exact), so none needs more than FracBits fraction bits; the
\* limbs above them hold the exact products, shifted dividends and radicands
\* before they are rounded.
Precision == 53
FracBits == 65
LimbBits == 15
Limbs == 13
GuardBits == 20
Base == 2^LimbBits

LimbIx == 1..Limbs

\* The limbs of a magnitude, as a tuple.
Limbed(f) == <<>> \o f

MaxOf(S) == CHOOSE m \in S : \A k \in S : k <= m

RECURSIVE AddFrom(_, _, _, _)
AddFrom(a, b, i, carry) ==
    IF i > Limbs THEN <<>>
    ELSE LET s == a[i] + b[i] + carry
         IN  <<s % Base>> \o AddFrom(a, b, i + 1, s \div Base)

\* a + b, exactly
BigAdd(a, b) == AddFrom(a, b, 1, 0)

RECURSIVE SubFrom(_, _, _, _)
SubFrom(a, b, i, borrow) ==
    IF i > Limbs THEN <<>>
    ELSE LET s == a[i] - b[i] - borrow
         IN  <<(s + Base) % Base>> \o SubFrom(a, b, i + 1, IF s < 0 THEN 1 ELSE 0)

\* a <= b
BigLeq(a, b) ==
    LET differ == {i \in LimbIx : a[i] # b[i]}
    IN  differ = {} \/ a[MaxOf(differ)] < b[MaxOf(differ)]

\* a - b, exactly, and zero when b exceeds a
BigMonus(a, b) ==
    IF BigLeq(b, a) THEN SubFrom(a, b, 1, 0) ELSE Limbed([i \in LimbIx |-> 0])

RECURSIVE MulFrom(_, _, _, _)
MulFrom(a, m, i, carry) ==
    IF i > Limbs THEN <<>>
    ELSE LET s == a[i] * m + carry
         IN  <<s % Base>> \o MulFrom(a, m, i + 1, s \div Base)

\* a * m, exactly, for a natural number m below Base
BigMulSmall(a, m) == MulFrom(a, m, 1, 0)

RECURSIVE DivFrom(_, _, _, _)
DivFrom(a, d, i, rem) ==
    IF i = 0 THEN <<>>
    ELSE LET cur == rem * Base + a[i]
             digit == cur \div d
         IN  IF digit < Base THEN DivFrom(a, d, i - 1, cur % d) \o <<digit>> ELSE <<>>

\* 2^k units
Pow2Big(k) ==
    Limbed([i \in LimbIx |-> IF i = (k \div LimbBits) + 1 THEN 2^(k % LimbBits) ELSE 0])

\* the k lowest bits of a
LowBits(a, k) ==
    Limbed([i \in LimbIx |->
        IF LimbBits * i <= k THEN a[i]
        ELSE IF LimbBits * (i - 1) >= k THEN 0
        ELSE a[i] % 2^(k - LimbBits * (i - 1))])

\* bit k of a, bit 0 being the lowest
BitOf(a, k) == (a[(k \div LimbBits) + 1] \div 2^(k % LimbBits)) % 2

BitLength(a) ==
    LET used == {i \in LimbIx : a[i] # 0}
    IN  IF used = {} THEN 0
        ELSE LET t == MaxOf(used)
             IN  LimbBits * (t - 1)
                   + (CHOOSE k \in 1..LimbBits : 2^(k - 1) <= a[t] /\ a[t] < 2^k)

\* The nearest number with a Precision-bit significand, ties to even.
RoundToDouble(a) ==
    LET drop == BitLength(a) - Precision
    IN  IF drop <= 0 THEN a
        ELSE LET low == LowBits(a, drop)
                 kept == BigMonus(a, low)
                 half == Pow2Big(drop - 1)
                 up == IF low = half THEN BitOf(a, drop) = 1 ELSE ~BigLeq(low, half)
             IN  IF up THEN BigAdd(kept, Pow2Big(drop)) ELSE kept

\* The number of a natural number n below Base.
FromInt(n) == BigMulSmall(Pow2Big(FracBits), n)

\* ---- geometry: signed numbers, Infinity and NaN ----------------------------
Zero == Limbed([i \in LimbIx |-> 0])

\* a * Base^k and a \div Base^k
ShiftLimbsUp(a, k) == Limbed([i \in LimbIx |-> IF i > k THEN a[i - k] ELSE 0])
ShiftLimbsDown(a, k) == Limbed([i \in LimbIx |-> IF i + k <= Limbs THEN a[i + k] ELSE 0])

\* a * 2^k and a \div 2^k
Times2To(a, k) == ShiftLimbsUp(BigMulSmall(a, 2^(k % LimbBits)), k \div LimbBits)
Over2To(a, k) == DivFrom(ShiftLimbsDown(a, k \div LimbBits), 2^(k % LimbBits), Limbs, 0)

\* A truncated magnitude whose lowest bit records that something was cut.
Jam(q, inexact) ==
    Limbed([i \in LimbIx |-> IF i = 1 /\ inexact /\ q[1] % 2 = 0 THEN q[1] + 1 ELSE q[i]])

RECURSIVE MulAcc(_, _, _)
MulAcc(a, b, i) ==
    IF i > Limbs THEN Zero
    ELSE IF b[i] = 0 THEN MulAcc(a, b, i + 1)
    ELSE BigAdd(ShiftLimbsUp(BigMulSmall(a, b[i]), i - 1), MulAcc(a, b, i + 1))

\* a * b, exactly, in units of 2^-(2*FracBits)
BigMul(a, b) == MulAcc(a, b, 1)

\* One digit of a long division: the q below Base with q * d <= cur <
\* (q + 1) * d, for cur < d * Base and a divisor d whose highest limb, the
\* t-th, is at least Base / 2. The quotient of the two highest limbs of cur by
\* the highest limb of d is that digit or exceeds it by at most two.
DigitOf(cur, d, t) ==
    LET lead == (IF t < Limbs THEN cur[t + 1] * Base ELSE 0) + cur[t]
        est == IF lead \div d[t] < Base THEN lead \div d[t] ELSE Base - 1
    IN  IF BigLeq(BigMulSmall(d, est), cur) THEN est
        ELSE IF BigLeq(BigMulSmall(d, est - 1), cur) THEN est - 1
        ELSE est - 2

\* Long division of n by such a d, limb by limb from the i-th down: the
\* digits found from there on, least significant first, then the remainder.
RECURSIVE DivLimbs(_, _, _, _, _)
DivLimbs(n, d, t, i, rem) ==
    IF i = 0 THEN <<rem>>
    ELSE LET cur == BigAdd(ShiftLimbsUp(rem, 1), Limbed([k \in LimbIx |-> IF k = 1 THEN n[i] ELSE 0]))
             q == DigitOf(cur, d, t)
             left == SubFrom(cur, BigMulSmall(d, q), 1, 0)
         IN  IF BigLeq(left, d) THEN DivLimbs(n, d, t, i - 1, left) \o <<q>> ELSE <<>>

\* n \div d with the remainder scaled as d is, d not zero: both are first
\* shifted so that the highest limb of d is at least Base / 2.
BigDivMod(n, d) ==
    LET len == BitLength(d)
        up == (LimbBits - (len % LimbBits)) % LimbBits
        t == (len + up) \div LimbBits
        all == DivLimbs(Times2To(n, up), Times2To(d, up), t, Limbs, Zero)
    IN  [q |-> Limbed([i \in LimbIx |-> all[i + 1]]), r |-> all[1]]

\* Newton's iteration for the integer square root, from an x above it.
RECURSIVE SqrtFrom(_, _)
SqrtFrom(n, x) ==
    LET y == Over2To(BigAdd(x, BigDivMod(n, x).q), 1)
    IN  IF BigLeq(x, y) THEN x ELSE SqrtFrom(n, y)

\* the floor of the square root of n, and whether n is its square
BigSqrtRem(n) ==
    IF n = Zero THEN [s |-> Zero, r |-> Zero]
    ELSE LET root == SqrtFrom(n, Pow2Big((BitLength(n) + 1) \div 2))
         IN  [s |-> root, r |-> SubFrom(n, BigMul(root, root), 1, 0)]

\* A number: finite with a sign and a magnitude, an Infinity with a sign, or
\* NaN. Zero carries no sign (no operation here tells -0 from 0).
Fin(neg, mag) == [kind |-> "fin", neg |-> neg /\ mag # Zero, mag |-> mag]
Inf(neg) == [kind |-> "inf", neg |-> neg, mag |-> Zero]
NaN == [kind |-> "nan", neg |-> FALSE, mag |-> Zero]

\* The number of a whole number n, -Base < n < Base.
NumInt(n) == Fin(n < 0, FromInt(IF n < 0 THEN 0 - n ELSE n))

IsZero(a) == a.kind = "fin" /\ a.mag = Zero

NumNeg(a) == IF a.kind = "nan" THEN NaN ELSE [a EXCEPT !.neg = ~a.neg /\ ~IsZero(a)]

\* a + b of two finite numbers, exactly
ExactAdd(a, b) ==
    IF a.neg = b.neg THEN Fin(a.neg, BigAdd(a.mag, b.mag))
    ELSE IF BigLeq(b.mag, a.mag)
         THEN Fin(a.neg, SubFrom(a.mag, b.mag, 1, 0))
         ELSE Fin(b.neg, SubFrom(b.mag, a.mag, 1, 0))

\* a + b
NumAdd(a, b) ==
    IF a.kind = "nan" \/ b.kind = "nan" THEN NaN
    ELSE IF a.kind = "inf"
         THEN IF b.kind = "inf" /\ b.neg # a.neg THEN NaN ELSE a
    ELSE IF b.kind = "inf" THEN b
    ELSE Fin(ExactAdd(a, b).neg, RoundToDouble(ExactAdd(a, b).mag))

\* a - b
NumSub(a, b) == NumAdd(a, NumNeg(b))

\* a * b
NumMul(a, b) ==
    IF a.kind = "nan" \/ b.kind = "nan" THEN NaN
    ELSE IF a.kind = "inf" \/ b.kind = "inf"
         THEN IF IsZero(a) \/ IsZero(b) THEN NaN ELSE Inf(a.neg # b.neg)
    ELSE Fin(a.neg # b.neg, Over2To(RoundToDouble(BigMul(a.mag, b.mag)), FracBits))

\* a / b
NumDiv(a, b) ==
    IF a.kind = "nan" \/ b.kind = "nan" THEN NaN
    ELSE IF a.kind = "inf"
         THEN IF b.kind = "inf" THEN NaN ELSE Inf(a.neg # b.neg)
    ELSE IF b.kind = "inf" THEN Fin(FALSE, Zero)
    ELSE IF IsZero(b)
         THEN IF IsZero(a) THEN NaN ELSE Inf(a.neg)
    ELSE LET d == BigDivMod(Times2To(a.mag, FracBits + GuardBits), b.mag)
         IN  Fin(a.neg # b.neg,
                 Over2To(RoundToDouble(Jam(d.q, d.r # Zero)), GuardBits))

\* Math.sqrt(a)
NumSqrt(a) ==
    IF a.kind = "nan" \/ a.neg THEN NaN
    ELSE IF a.kind = "inf" THEN a
    ELSE LET d == BigSqrtRem(Times2To(a.mag, FracBits + GuardBits))
         IN  Fin(FALSE, Over2To(RoundToDouble(Jam(d.s, d.r # Zero)), GuardBits \div 2))

\* a < b; false when either is NaN
NumLt(a, b) ==
    /\ a.kind # "nan" /\ b.kind # "nan"
    /\ a # b
    /\ IF a.neg # b.neg THEN a.neg
       ELSE IF a.kind = "inf" THEN a.neg
       ELSE IF b.kind = "inf" THEN ~b.neg
       ELSE IF a.neg THEN BigLeq(b.mag, a.mag) ELSE BigLeq(a.mag, b.mag)

\* a <= b; false when either is NaN
NumLeq(a, b) == a.kind # "nan" /\ b.kind # "nan" /\ (a = b \/ NumLt(a, b))

\* Math.min(a, b) and Math.max(a, b)
NumMin(a, b) ==
    IF a.kind = "nan" \/ b.kind = "nan" THEN NaN ELSE IF NumLt(b, a) THEN b ELSE a
NumMax(a, b) ==
    IF a.kind = "nan" \/ b.kind = "nan" THEN NaN ELSE IF NumLt(a, b) THEN b ELSE a

\* ---- geometry: the content rectangle and the overlay -----------------------
\* offsetWidth and offsetHeight of the container
ContainerSizes == {<<1000, 500>>, <<800, 400>>, <<400, 390>>, <<400, 300>>, <<0, 0>>}

\* naturalWidth and naturalHeight of the image, videoWidth and videoHeight of
\* the video; both are 0 while the size is not known
NaturalSizes == {<<1200, 1200>>, <<400, 390>>, <<1920, 1080>>, <<0, 0>>}

\* Mutant: the fitted image is put at the container's corner, not centered.
ContainRect_AtCorner(cw, ch, nw, nh) ==
    LET imgAspect == NumDiv(NumInt(nw), NumInt(nh))
        containerAspect == NumDiv(NumInt(cw), NumInt(ch))
    IN  IF NumLt(imgAspect, containerAspect)
        THEN [x |-> NumInt(0), y |-> NumInt(0),
              w |-> NumMul(NumInt(ch), imgAspect), h |-> NumInt(ch)]
        ELSE [x |-> NumInt(0), y |-> NumInt(0),
              w |-> NumInt(cw), h |-> NumDiv(NumInt(cw), imgAspect)]

\* updateContentRect over a static image: object-fit contain.
ContainRect(cw, ch, nw, nh) ==
    LET imgAspect == NumDiv(NumInt(nw), NumInt(nh))
        containerAspect == NumDiv(NumInt(cw), NumInt(ch))
    IN  IF NumLt(imgAspect, containerAspect)
        THEN LET rw == NumMul(NumInt(ch), imgAspect)
             IN  [x |-> NumDiv(NumSub(NumInt(cw), rw), NumInt(2)), y |-> NumInt(0),
                  w |-> rw, h |-> NumInt(ch)]
        ELSE LET rh == NumDiv(NumInt(cw), imgAspect)
             IN  [x |-> NumInt(0), y |-> NumDiv(NumSub(NumInt(ch), rh), NumInt(2)),
                  w |-> NumInt(cw), h |-> rh]

\* Mutant: the sides of the container are taken for each other.
CoverRect_Swapped(cw, ch) ==
    [x |-> NumInt(0), y |-> NumInt(0), w |-> NumInt(ch), h |-> NumInt(cw)]

\* updateContentRect over the video: the whole container.
CoverRect(cw, ch) ==
    [x |-> NumInt(0), y |-> NumInt(0), w |-> NumInt(cw), h |-> NumInt(ch)]

\* What updateContentRect hands to onContentRectChange, for a container of cw
\* by ch pixels and a source of nw by nh, over a static image or not; NoRect
\* when it returns without a call (the image has no natural width yet).
EmittedRect(static, cw, ch, nw, nh) ==
    IF static
    THEN IF nw = 0 THEN NoRect ELSE ContainRect(cw, ch, nw, nh)
    ELSE CoverRect(cw, ch)

\* The same, tabulated over the sizes of the model.
EmittedRects ==
    [static \in BOOLEAN, size \in ContainerSizes, natural \in NaturalSizes |->
        EmittedRect(static, size[1], size[2], natural[1], natural[2])]

\* Mutant: a rectangle equal to the one held counts as a reset and clears it.
onContentRectChange_DropsRepeat(rect) ==
    IF rect = NoRect THEN contentRect ELSE IF rect = contentRect THEN NoRect ELSE rect

\* onContentRectChange = setContentRect: the rectangle handed over replaces
\* the one held; without a call (NoRect) the one held stays.
onContentRectChange(rect) == IF rect = NoRect THEN contentRect ELSE rect

\* updateContentRect, from the 1 s interval, resize, load and metadata events.
updateContentRect(size, natural) ==
    /\ Quiet
    /\ ~(camError /\ ~screenStream /\ staticImage = Null)   \* the container is rendered
    /\ contentRect' = onContentRectChange(EmittedRects[staticImage # Null, size, natural])
    /\ UNCHANGED <<isAutoMode, appState, translationData, cameraFacing, screenStream,
                   staticImage, isSettingsOpen, history, autoSave, useOfflineMode,
                   isScreenShareSupported, persisted, feedVars, pendingVars, autoOrigin>>
    /\ Marks

UpdateContentRect ==
    \E size \in ContainerSizes, natural \in NaturalSizes :
        updateContentRect(size, natural)

\* The content rectangles the model can hold.
ContentRects ==
    {EmittedRects[static, size, natural] :
        static \in BOOLEAN, size \in ContainerSizes, natural \in NaturalSizes} \ {NoRect}

\* Mutant: the crop starts at the corner of the frame, not centered.
CropWindow_AtCorner(video) ==
    LET containerAspect == NumDiv(NumInt(video.cw), NumInt(video.ch))
    IN  IF NumLt(NumDiv(NumInt(video.vw), NumInt(video.vh)), containerAspect)
        THEN [sx |-> NumInt(0), sy |-> NumInt(0),
              sw |-> NumInt(video.vw), sh |-> NumDiv(NumInt(video.vw), containerAspect)]
        ELSE [sx |-> NumInt(0), sy |-> NumInt(0),
              sw |-> NumMul(NumInt(video.vh), containerAspect), sh |-> NumInt(video.vh)]

\* The part of the raw frame capture() draws: what object-fit cover shows.
CropWindow(video) ==
    LET videoAspect == NumDiv(NumInt(video.vw), NumInt(video.vh))
        containerAspect == NumDiv(NumInt(video.cw), NumInt(video.ch))
    IN  IF NumLt(videoAspect, containerAspect)
        THEN LET sh == NumDiv(NumInt(video.vw), containerAspect)
             IN  [sx |-> NumInt(0), sy |-> NumDiv(NumSub(NumInt(video.vh), sh), NumInt(2)),
                  sw |-> NumInt(video.vw), sh |-> sh]
        ELSE LET sw == NumMul(NumInt(video.vh), containerAspect)
             IN  [sx |-> NumDiv(NumSub(NumInt(video.vw), sw), NumInt(2)), sy |-> NumInt(0),
                  sw |-> sw, sh |-> NumInt(video.vh)]

\* The same, tabulated over the ready videos of the model.
CropWindows == [video \in {v \in Videos : VideoReady(v)} |-> CropWindow(video)]

\* box_2d = [ymin, xmin, ymax, xmax], as the service may answer it: inside
\* 0..1000 and touching its far edges, outside it, inverted along one axis
\* or both, and empty.
Boxes ==
    {<<0, 67, 1000, 1000>>, <<67, 0, 1000, 1000>>, <<100, 100, 300, 400>>,
     <<500, 0, 1200, 500>>, <<300, 100, 100, 400>>, <<300, 400, 100, 100>>,
     <<500, 500, 500, 500>>}

\* A parsed answer with one item, at the box the service put it.
BoxedResult(img, box) ==
    [items |-> <<[original |-> img, translated |-> Translation(img), box_2d |-> box]>>,
     summary |-> "summary"]

\* A parsed answer with four items: the second has no box_2d, the third a
\* box_2d of two coordinates.
MixedResult(img) ==
    [items |-> <<[original |-> img, translated |-> Translation(img),
                  box_2d |-> <<100, 100, 300, 400>>],
                 [original |-> img, translated |-> Translation(img)],
                 [original |-> img, translated |-> Translation(img), box_2d |-> <<100, 100>>],
                 [original |-> img, translated |-> Translation(img),
                  box_2d |-> <<0, 67, 1000, 1000>>]>>,
     summary |-> "summary"]

\* The continuation of handleFrameCapture for such an answer.
BoxedInferenceCompletes ==
    \E i \in 1..Len(calls) :
        \E result \in {BoxedResult(calls[i].img, box) : box \in Boxes}
                        \cup {MixedResult(calls[i].img)} :
            /\ ~calls[i].offline
            /\ CompleteWith(i, result)

\* box coordinate / 1000
Fraction(n) == NumDiv(NumInt(n), NumInt(1000))

\* Mutant: the height is taken from ymax alone.
MapHeight_FromYmax(box, rect) == NumMul(Fraction(box[3]), rect.h)

\* The mapping of Overlay: 0..1000 to the pixels of the content rectangle.
MapTop(box, rect) == NumAdd(rect.y, NumMul(Fraction(box[1]), rect.h))
MapLeft(box, rect) == NumAdd(rect.x, NumMul(Fraction(box[2]), rect.w))
MapHeight(box, rect) == NumMul(Fraction(box[3] - box[1]), rect.h)

\* Mutant: the width is the box's own, not scaled to the rectangle.
MapWidth_Unscaled(box, rect) == NumInt(box[4] - box[2])

MapWidth(box, rect) == NumMul(Fraction(box[4] - box[2]), rect.w)

\* The style of the overlay of a box over a content rectangle.
mapBox(box, rect) ==
    [top |-> MapTop(box, rect), left |-> MapLeft(box, rect),
     height |-> MapHeight(box, rect), width |-> MapWidth(box, rect)]

\* The same, tabulated over the boxes and rectangles of the model.
MappedOverlays == [box \in Boxes, rect \in ContentRects |-> mapBox(box, rect)]

OverlayOf(box, rect) ==
    IF box \in Boxes /\ rect \in ContentRects THEN MappedOverlays[box, rect]
    ELSE mapBox(box, rect)

\* The text-size settings of the slider: its ends 0.75 and 1.5, and the
\* default 1.0.
Multipliers == {NumDiv(NumInt(75), NumInt(100)), NumInt(1), NumDiv(NumInt(15), NumInt(10))}

\* getFontSize: the number before "px" in the font size of an item's text,
\* for its box, its translated text, the content rectangle and the user's
\* multiplier.
getFontSize(box, text, rect, textSizeMultiplier) ==
    LET h_px == NumMul(Fraction(box[3] - box[1]), rect.h)
        w_px == NumMul(Fraction(box[4] - box[2]), rect.w)
        len == IF Len(text) = 0 THEN 1 ELSE Len(text)
        maxH == NumMul(h_px, NumDiv(NumInt(55), NumInt(100)))
        area == NumMul(w_px, h_px)
        densitySize == NumMul(NumSqrt(NumDiv(area, NumInt(len))), NumDiv(NumInt(12), NumInt(10)))
        size == NumMul(NumMin(maxH, densitySize), textSizeMultiplier)
    IN  NumMax(NumInt(10), NumMin(size, NumInt(42)))

\* The fallback of Overlay without a content rectangle: percents of the
\* viewport.
percentBox(box) ==
    [top |-> NumDiv(NumInt(box[1]), NumInt(10)), left |-> NumDiv(NumInt(box[2]), NumInt(10)),
     height |-> NumDiv(NumInt(box[3] - box[1]), NumInt(10)),
     width |-> NumDiv(NumInt(box[4] - box[2]), NumInt(10)), unit |-> "%"]

\* The same, tabulated over the boxes of the model.
PercentOverlays == [box \in Boxes |-> percentBox(box)]

\* The safeguard of the items map: the item has a box of four coordinates.
HasBox(item) == "box_2d" \in DOMAIN item /\ Len(item.box_2d) >= 4

\* Mutant: the map stops at the first item without a box.
RenderedItems_UntilMalformed ==
    IF translationData = NoResult \/ isSettingsOpen THEN {}
    ELSE {k \in 1..Len(translationData.items) :
             \A j \in 1..k : HasBox(translationData.items[j])}

\* The items Overlay renders a box for, by their index in the displayed
\* result; Overlay is not rendered while the settings are open.
RenderedItems ==
    IF translationData = NoResult \/ isSettingsOpen THEN {}
    ELSE {k \in 1..Len(translationData.items) : HasBox(translationData.items[k])}

\* The style of each rendered item.
RenderedStyles ==
    [k \in RenderedItems |->
        LET box == translationData.items[k].box_2d
        IN  IF contentRect # NoRect THEN OverlayOf(box, contentRect)
            ELSE IF box \in Boxes THEN PercentOverlays[box] ELSE percentBox(box)]

\* The boxes drawn over a known content rectangle.
MappedBoxes ==
    IF contentRect = NoRect THEN {}
    ELSE {translationData.items[k].box_2d : k \in RenderedItems}

\* ---- specifications ---------------------------------------------------------
\* The capture scheduler: every event that moves the scan state, the capture
\* mode, the source or a displayed result. The events left to Next change
\* only what the scheduler never reads (the content rectangle, the history),
\* or re-run the auto-capture effect on a render in which AutoTick could
\* capture as well (camera error and retry, the auto-save and offline
\* switches).
SchedNext ==
    \/ RunEffects
    \/ AutoTick
    \/ CameraAcquired
    \/ InferenceCompletes
    \/ RecoveryTimerFires
    \/ toggleAutoMode
    \/ handleManualScan
    \/ ManualTimerFires
    \/ toggleCamera
    \/ toggleScreenShare
    \/ ScreenShareGranted
    \/ ScreenShareDenied
    \/ ScreenShareEnded
    \/ \E img \in Uploads : handleFileUpload(img)
    \/ FileLoaded
    \/ clearStaticImage
    \/ ClearText
    \/ OpenSettings
    \/ CloseSettings

Next ==
    \/ SchedNext
    \/ CameraFailed
    \/ RetryCamera
    \/ UpdateContentRect
    \/ toggleAutoSave
    \/ toggleOfflineMode
    \/ clearHistory
    \/ handleManualSave
    \/ AutoSaveRejected
    \/ ManualSaveRejected

Spec == Init /\ [][Next]_vars

SchedSpec == Init /\ [][SchedNext]_vars

\* React runs the effects of every commit, and the event loop runs every
\* timer callback that is due.
SchedLiveSpec ==
    SchedSpec /\ WF_vars(RunEffects) /\ SF_vars(RecoveryTimerFires)


\* ---- the history feature -----------------------------------------------------
\* What the mount effect can find under 'jp_kr_history': nothing, or a history
\* saved earlier, most recent entry first. The lengths are those around the
\* limit of saveToHistory.
StoredLengths == {0, 1, HistoryLimit, HistoryLimit + 1}

OldEntry(i) ==
    [summary |-> "old summary",
     fullText |-> << <<IF i % 2 = 0 THEN "old even" ELSE "old odd", "->", "ko:old">> >>]

\* A stored history of n entries without two equal neighbours; its head is an
\* earlier entry or the entry of the result the offline stub answers with.
StoredHistory(n, head) ==
    [i \in 1..n |-> IF i = 1 /\ head = "offline"
                    THEN NewItem(translateImageOffline)
                    ELSE OldEntry(i)]

StoredHistories ==
    {StoredHistory(n, head) : n \in StoredLengths, head \in {"old", "offline"}}

\* Mount with a stored history and a stored offline preference:
\* setHistory(JSON.parse(savedHistory)), setUseOfflineMode(...).
HistInit ==
    /\ InitOthers
    /\ useOfflineMode \in BOOLEAN
    /\ history \in StoredHistories
    /\ persisted = IF history = <<>> THEN NothingPersisted
                   ELSE [set |-> TRUE, value |-> history]

\* The events that lead to a save, a clear, or a change of what is saved; the
\* sources are left to the camera and the offline preference to the store.
HistNext ==
    \/ RunEffects
    \/ AutoTick
    \/ CameraAcquired
    \/ InferenceCompletes
    \/ RecoveryTimerFires
    \/ toggleAutoMode
    \/ OpenSettings
    \/ CloseSettings
    \/ toggleAutoSave
    \/ clearHistory
    \/ handleManualSave

HistSpec == HistInit /\ [][HistNext]_vars

\* The saves and the clear over a store that may refuse a write; the auto-save
\* preference stays as it was loaded.
StoreNext ==
    \/ RunEffects
    \/ AutoTick
    \/ CameraAcquired
    \/ InferenceCompletes
    \/ AutoSaveRejected
    \/ toggleAutoMode
    \/ OpenSettings
    \/ CloseSettings
    \/ clearHistory
    \/ handleManualSave
    \/ ManualSaveRejected

StoreSpec == HistInit /\ [][StoreNext]_vars

\* ---- the geometry: content rectangle and overlays ---------------------------
GeoNext ==
    \/ RunEffects
    \/ AutoTick
    \/ CameraAcquired
    \/ BoxedInferenceCompletes
    \/ handleManualScan
    \/ ManualTimerFires
    \/ \E img \in Uploads : handleFileUpload(img)
    \/ FileLoaded
    \/ clearStaticImage
    \/ UpdateContentRect

GeoSpec == Init /\ [][GeoNext]_vars

\* ---- the timers: activation, source switches and the two intervals ---------
TimerNext ==
    \/ RunEffects
    \/ AutoTick
    \/ CameraAcquired
    \/ InferenceCompletes
    \/ toggleAutoMode
    \/ handleManualScan
    \/ ManualTimerFires
    \/ \E img \in Uploads : handleFileUpload(img)
    \/ FileLoaded
    \/ clearStaticImage
    \/ UpdateContentRect

TimerSpec == Init /\ [][TimerNext]_vars

\* ---- one manual trigger ------------------------------------------------------
\* The scan button pressed before anything was captured: no call was started
\* and no result or error is left from one.
NothingCapturedYet ==
    calls = <<>> /\ translationData = NoResult /\ recoveryTimers = <<>>

FirstManualScan == NothingCapturedYet /\ handleManualScan

\* A session up to its first manual capture and what follows from it: the
\* effects, the camera, the trigger with its 100 ms timer, and the answers
\* of the remote service. The 3 s interval is left out: its period is thirty
\* times the life of the temporary flag.
OneShotNext ==
    \/ RunEffects
    \/ CameraAcquired
    \/ toggleCamera
    \/ FirstManualScan
    \/ ManualTimerFires
    \/ InferenceCompletes

OneShotSpec == Init /\ [][OneShotNext]_vars

\* ---- the response bodies ------------------------------------------------------
\* Continuous capture over the camera with every body the service may answer
\* with, up to a render that throws: what the error boundary shows from
\* there on is not part of the model.
ParseNext ==
    \/ ~OverlayThrows /\ RunEffects
    \/ ~OverlayThrows /\ AutoTick
    \/ ~OverlayThrows /\ CameraAcquired
    \/ ~OverlayThrows /\ ParsedInferenceCompletes
    \/ ~OverlayThrows /\ RecoveryTimerFires
    \/ ~OverlayThrows /\ toggleAutoMode
    \/ ~OverlayThrows /\ OpenSettings
    \/ ~OverlayThrows /\ CloseSettings

ParseSpec == Init /\ [][ParseNext]_vars

\* ---- claims -------------------------------------------------------------------
\* C1: in every reachable state at most one inference call is in flight.
C1_AtMostOneInFlight == Len(calls) <= 1

\* C2: a manual trigger takes effect (the continuous flag is raised for a
\* manual capture and its 100 ms reset timer is set) only when ScanState is
\* Idle and continuous mode is off, and the trigger itself starts no call and
\* leaves ScanState and the displayed result alone; so in Scanning, in Error
\* or with continuous mode on it changes nothing.
ManualTriggerTookEffect ==
    \/ manualTimers' > manualTimers
    \/ autoOrigin' = "manual" /\ autoOrigin # "manual"

C2_ManualOnlyFromIdle ==
    [][ManualTriggerTookEffect =>
          /\ appState = IDLE
          /\ ~isAutoMode
          /\ UNCHANGED <<appState, translationData, calls, staticImage>>]_vars

C2_Witness == autoOrigin = "manual" /\ isAutoMode /\ manualTimers > 0 /\ appState = IDLE


\* The answers that are failures of the call: transport error, empty body,
\* payload that is no JSON.
FailureAnswers == {"transport", "emptyBody", "nonJSON"}

\* A step that is the completion of the i-th call with the answer resp, the
\* call having gone to the remote service.
RemoteCompletion(i, resp) == Complete(i, resp) /\ ~calls[i].offline

\* C3: whenever an inference call fails (transport error, malformed or empty
\* response), ScanState moves from Scanning to Error.
C3_FailureMovesToError ==
    [][\A i \in 1..Len(calls) : \A resp \in FailureAnswers :
          RemoteCompletion(i, resp) => appState' = ERROR]_vars

\* C4: whenever ScanState is Error it eventually becomes Idle, the recovery
\* timer being fair; no user action is needed.
C4_ErrorLeadsToIdle == (appState = ERROR) ~> (appState = IDLE)

C4_Witness == appState = ERROR /\ Len(recoveryTimers) > 0 /\ calls = <<>>

\* C5: Scanning is entered only from Idle (never from Error).
C5_ScanningOnlyFromIdle ==
    [][(appState' = SCANNING /\ appState # SCANNING) => appState = IDLE]_vars

\* C6: while the settings surface is open no capture trigger, automatic or
\* manual, moves ScanState to Scanning or starts an inference call, and the
\* trigger leaves ScanState and the displayed result unchanged.
C6_NoCaptureWhileSettingsOpen ==
    [][isSettingsOpen =>
          /\ Len(calls') <= Len(calls)
          /\ appState' = SCANNING => appState = SCANNING
          /\ (AutoTick \/ RunEffects \/ handleManualScan) =>
                UNCHANGED <<appState, translationData, calls, staticImage>>]_vars

\* The settings are open over a ready live source in continuous mode and
\* Idle: an interval tick is due and would otherwise be accepted.
C6_Witness ==
    /\ isSettingsOpen
    /\ isAutoMode
    /\ ActiveStream # Null
    /\ staticImage = Null
    /\ appState = IDLE
    /\ Quiet

\* C7: when an inference call completes with a result, ScanState becomes Idle
\* and the displayed result becomes exactly the returned one, whatever was
\* displayed before and whether or not the result has items.
C7_SuccessReplacesResult ==
    [][\A i \in 1..Len(calls) : \A resp \in Responses :
          (Complete(i, resp) /\ Truthy(CallResult(calls[i], resp))) =>
              /\ appState' = IDLE
              /\ translationData' = CallResult(calls[i], resp)]_vars

\* A result without items is on display after a completed call.
C7_Witness ==
    /\ translationData = [items |-> <<>>, summary |-> "No text detected"]
    /\ appState = IDLE
    /\ calls = <<>>


\* A step that switches the source: camera flip, screen share started or
\* stopped, an uploaded image becoming the static image.
SourceSwitched ==
    \/ cameraFacing' # cameraFacing
    \/ screenStream' # screenStream
    \/ staticImage' # staticImage /\ staticImage' \in Uploads

\* C8: every source switch leaves ScanState Idle and no result on display.
C8_SwitchResets ==
    [][SourceSwitched => (appState' = IDLE /\ translationData' = NoResult)]_vars

\* C9: the result of a call that was started on another source than the
\* static image now shown is not applied when it arrives.
C9_StaleResultDropped ==
    [][\A i \in 1..Len(calls) : \A resp \in Responses :
          (Complete(i, resp) /\ staticImage # Null /\ calls[i].img # staticImage) =>
              translationData' = translationData]_vars

\* C10: a capture taken for a manual trigger on a live source, without static
\* image, makes the captured frame the static image.
C10_ManualCaptureFreezes ==
    [][(Len(calls') > Len(calls) /\ autoOrigin = "manual" /\ staticImage = Null) =>
          staticImage' = calls'[Len(calls')].img]_vars

\* C11: while a static image is the source, continuous mode can be turned on,
\* and turning it on clears the static image, the displayed result and the
\* content rectangle and leaves continuous mode on.
C11_AutoModeCancelsFrozenFrame ==
    (staticImage # Null /\ ~isAutoMode /\ Quiet /\ AcquireRoom) =>
        ENABLED (/\ toggleAutoMode
                 /\ staticImage' = Null
                 /\ translationData' = NoResult
                 /\ contentRect' = NoRect
                 /\ isAutoMode')


\* Continuous mode was turned on by the user over a live source whose stream
\* is there, ScanState is Idle and the settings are closed; the video can be
\* ready within the budget of pending operations.
ContinuousOverReadySource ==
    /\ isAutoMode /\ autoOrigin = "user"
    /\ ~camError /\ ActiveStream # Null /\ staticImage = Null
    /\ appState = IDLE /\ ~isSettingsOpen
    /\ TRUE \in Readiness

\* C12: the effect run that follows the activation of continuous mode on a
\* ready live source takes a capture at once (ScanState becomes Scanning and a
\* call starts, no interval tick being needed), and while continuous mode
\* stays active each interval tick in Idle takes a capture again.
C12_ImmediateThenPeriodic ==
    /\ (ContinuousOverReadySource /\ capDirty) =>
          ENABLED (RunEffects /\ appState' = SCANNING /\ Len(calls') = Len(calls) + 1)
    /\ (ContinuousOverReadySource /\ Quiet) =>
          ENABLED (AutoTick /\ appState' = SCANNING /\ Len(calls') = Len(calls) + 1)

\* The capture of an activation is in flight, and a later tick has taken
\* another one after the first was answered.
C12_Witness ==
    /\ isAutoMode /\ autoOrigin = "user" /\ Quiet
    /\ appState = SCANNING /\ Len(calls) = 1
    /\ translationData # NoResult


\* C13: with a static image as the source, the effect run that follows a
\* manual trigger accepted from Idle with the settings closed starts a capture
\* whose frame is the static image itself, and ScanState becomes Scanning.
C13_ManualCaptureOfStaticImage ==
    [][(/\ RunEffects /\ capDirty
        /\ isAutoMode /\ autoOrigin = "manual"
        /\ staticImage # Null
        /\ appState = IDLE /\ ~isSettingsOpen) =>
          /\ appState' = SCANNING
          /\ Len(calls') = Len(calls) + 1
          /\ calls'[Len(calls')].img = staticImage]_vars


\* A result that saveToHistory does not ignore, and one whose text and
\* summary are not those of the most recent entry.
Saveable(result) == Len(result.items) > 0 \/ result.summary # ""

DiffersFromHead(h, result) ==
    \/ Len(h) = 0
    \/ h[1].fullText # FullText(result)
    \/ h[1].summary # result.summary

\* The history after the step is the entry of the result in front of the
\* history before it, cut to the 50 most recent entries.
GrownBy(result) ==
    /\ Len(history') = IF Len(history) < HistoryLimit
                       THEN Len(history) + 1 ELSE HistoryLimit
    /\ history'[1].fullText = FullText(result)
    /\ \A k \in 2..Len(history') : history'[k] = history[k - 1]

\* A step that is the completion of the i-th call with the answer resp and
\* auto-saves its result.
AutoSaveStep(i, resp) ==
    /\ Complete(i, resp)
    /\ Truthy(CallResult(calls[i], resp))
    /\ AutoSaves(calls[i], CallResult(calls[i], resp))

\* C14: a save (manual or automatic) of a result that differs from the most
\* recent entry puts its entry at the head of the history, followed by the
\* earlier entries; the length grows by one up to 50 and stays 50 at the cap,
\* the oldest entry being dropped.
C14_DistinctSaveGrows ==
    [][/\ (/\ handleManualSave
            /\ Len(history) <= HistoryLimit
            /\ Saveable(translationData)
            /\ DiffersFromHead(history, translationData)) => GrownBy(translationData)
       /\ \A i \in 1..Len(calls) : \A resp \in Responses :
            (/\ AutoSaveStep(i, resp)
             /\ Len(history) <= HistoryLimit
             /\ DiffersFromHead(history, CallResult(calls[i], resp)))
                => GrownBy(CallResult(calls[i], resp))]_vars


\* The most recent entry of h is the one of the result, and the entry before
\* it is not.
OneEntryFor(h, result) ==
    /\ ~DiffersFromHead(h, result)
    /\ DiffersFromHead(Tail(h), result)

\* C15: a save of a result whose text and summary are those of the most
\* recent entry leaves the history and the store unchanged; and after a manual
\* save of a displayed result with items (auto-saved or not) the history has
\* one entry for it at its head, so that saving it again changes nothing.
C15_DuplicateSaveIgnored ==
    [][/\ (handleManualSave /\ ~DiffersFromHead(history, translationData))
            => UNCHANGED <<history, persisted>>
       /\ \A i \in 1..Len(calls) : \A resp \in Responses :
            (AutoSaveStep(i, resp) /\ ~DiffersFromHead(history, CallResult(calls[i], resp)))
                => UNCHANGED <<history, persisted>>
       /\ (handleManualSave /\ Len(translationData.items) > 0)
            => OneEntryFor(history', translationData)]_vars


C17_AutoSaveOnlyWithItems ==
    [][\A i \in 1..Len(calls) : \A resp \in Responses :
          (/\ Complete(i, resp)
           /\ Truthy(CallResult(calls[i], resp))
           /\ (~autoSave \/ Len(CallResult(calls[i], resp).items) = 0))
              => UNCHANGED <<history, persisted>>]_vars


\* The text of an entry as the history is to hold it: the lines
\* "original -> translated" of the items, or the line "[Summary Only] summary".
ExpectedFullText(result) ==
    IF result.items # <<>>
    THEN [k \in DOMAIN result.items |->
            <<result.items[k].original, "->", result.items[k].translated>>]
    ELSE << <<"[Summary Only]", result.summary>> >>

\* C18: whenever a result is displayed (the settings being closed) it can be
\* saved by hand; the manual save of a result with items or a summary that
\* differs from the most recent entry leaves an entry with the expected text
\* at the head of the history, and the manual save of a result with neither
\* changes nothing.
C18_ManualSaveText ==
    /\ []((Quiet /\ ~isSettingsOpen /\ translationData # NoResult)
            => ENABLED handleManualSave)
    /\ [][/\ (/\ handleManualSave
               /\ Saveable(translationData)
               /\ DiffersFromHead(history, translationData))
                 => (/\ history' # <<>>
                     /\ history'[1].fullText = ExpectedFullText(translationData))
          /\ (handleManualSave /\ ~Saveable(translationData))
                 => UNCHANGED <<history, persisted>>]_vars


\* The diagnostic result for each failure of the call.
DiagnosticFor(resp) ==
    [items |-> <<>>,
     summary |-> CASE resp = "transport" ->
                        "Connection error. Please check your internet."
                   [] resp = "emptyBody" ->
                        "Could not process image (Safety filter or Network error)."
                   [] resp = "nonJSON" ->
                        "Translation failed: Invalid response format."]

\* C19: a transport failure, an empty body and an unparseable payload each
\* give the caller of translateImage a result without items and with the
\* diagnostic summary of that failure; nothing is thrown, so the caller's
\* catch block (Error, recovery timer) is not entered.
C19_FailuresYieldDiagnostics ==
    [][\A i \in 1..Len(calls) : \A resp \in FailureAnswers :
          RemoteCompletion(i, resp) =>
              /\ translationData' = DiagnosticFor(resp)
              /\ appState' # ERROR
              /\ recoveryTimers' = recoveryTimers]_vars

\* The diagnostic of a transport failure is on display, after the call.
C19_Witness ==
    /\ translationData = DiagnosticFor("transport")
    /\ appState = IDLE
    /\ recoveryTimers = <<>>
    /\ calls = <<>>


\* 0 <= ymin <= ymax <= 1000 and 0 <= xmin <= xmax <= 1000
ValidBox(box) ==
    /\ 0 <= box[1] /\ box[1] <= box[3] /\ box[3] <= 1000
    /\ 0 <= box[2] /\ box[2] <= box[4] /\ box[4] <= 1000

\* start + extent <= origin + side, all four taken exactly
EndsInside(start, extent, origin, side) ==
    NumLeq(ExactAdd(start, extent), ExactAdd(origin, side))

\* start + extent <= (origin + side) * (1 + 2^-51), for an edge origin +
\* side that is not negative
EndsInsideWithin(start, extent, origin, side) ==
    LET edge == ExactAdd(origin, side)
    IN  NumLeq(ExactAdd(start, extent),
               Fin(FALSE, BigAdd(edge.mag, Over2To(edge.mag, 51))))

\* A mapped overlay starts at or after the near edges of the rectangle.
StartsInside(o, rect) == NumLeq(rect.y, o.top) /\ NumLeq(rect.x, o.left)

\* C20, as stated: every valid box is mapped inside the content rectangle,
\* top >= rect.y, left >= rect.x, top + height <= rect.y + rect.h and
\* left + width <= rect.x + rect.w.
C20_OverlayInsideContentRect ==
    \A box \in MappedBoxes :
        ValidBox(box) =>
            LET o == OverlayOf(box, contentRect)
            IN  /\ StartsInside(o, contentRect)
                /\ EndsInside(o.top, o.height, contentRect.y, contentRect.h)
                /\ EndsInside(o.left, o.width, contentRect.x, contentRect.w)

\* C20, amended: every valid box is mapped to an overlay with top >= rect.y
\* and left >= rect.x, whose far edges pass rect.y + rect.h and
\* rect.x + rect.w by no more than the rounding of the arithmetic, one part
\* in 2^51 of that edge.
C20_OverlayInsideWithinRounding ==
    \A box \in MappedBoxes :
        ValidBox(box) =>
            LET o == OverlayOf(box, contentRect)
            IN  /\ StartsInside(o, contentRect)
                /\ EndsInsideWithin(o.top, o.height, contentRect.y, contentRect.h)
                /\ EndsInsideWithin(o.left, o.width, contentRect.x, contentRect.w)

\* A valid box is drawn over a letterboxed image, and its right edge, as
\* computed, lies past the right edge of the content rectangle.
C20_Witness ==
    \E box \in MappedBoxes :
        /\ ValidBox(box)
        /\ NumLt(NumInt(0), contentRect.x)
        /\ ~EndsInside(OverlayOf(box, contentRect).left, OverlayOf(box, contentRect).width,
                       contentRect.x, contentRect.w)

\* a * n for a finite number a and a whole number n, exactly
ExactTimes(a, n) == Fin(a.neg # (n < 0), BigMulSmall(a.mag, IF n < 0 THEN 0 - n ELSE n))

\* 1000 * value = 1000 * origin + coord * side, exactly
ExactlyMapped(value, origin, coord, side) ==
    ExactTimes(value, 1000) = ExactAdd(ExactTimes(origin, 1000), ExactTimes(side, coord))

\* The same up to the rounding of the arithmetic: the two sides differ by no
\* more than one part in 2^51 of 1000 * |origin| + |coord| * |side|.
MappedWithin(value, origin, coord, side) ==
    LET diff == ExactAdd(ExactTimes(value, 1000),
                         NumNeg(ExactAdd(ExactTimes(origin, 1000), ExactTimes(side, coord))))
        scale == BigAdd(ExactTimes(origin, 1000).mag, ExactTimes(side, coord).mag)
    IN  BigLeq(diff.mag, Over2To(scale, 51))

\* The rectangle and the box of the example, and the overlay it states.
ExampleRect == CoverRect(1000, 500)
ExampleBox == <<100, 100, 300, 400>>
ExampleOverlay ==
    [top |-> NumInt(50), left |-> NumInt(100), width |-> NumInt(300), height |-> NumInt(100)]

\* C21, as stated: the overlay of every drawn box is top = rect.y + ymin *
\* rect.h / 1000, left = rect.x + xmin * rect.w / 1000, width = (xmax - xmin)
\* * rect.w / 1000 and height = (ymax - ymin) * rect.h / 1000.
C21_OverlayFormula ==
    \A box \in MappedBoxes :
        LET o == OverlayOf(box, contentRect)
        IN  /\ ExactlyMapped(o.top, contentRect.y, box[1], contentRect.h)
            /\ ExactlyMapped(o.left, contentRect.x, box[2], contentRect.w)
            /\ ExactlyMapped(o.width, NumInt(0), box[4] - box[2], contentRect.w)
            /\ ExactlyMapped(o.height, NumInt(0), box[3] - box[1], contentRect.h)

\* C21, amended: the overlay of every drawn box has these four values up to
\* the rounding of the arithmetic, and the box [100, 100, 300, 400] over the
\* rectangle {x: 0, y: 0, w: 1000, h: 500} is drawn at exactly {top: 50,
\* left: 100, width: 300, height: 100}.
C21_OverlayFormulaWithinRounding ==
    /\ \A box \in MappedBoxes :
           LET o == OverlayOf(box, contentRect)
           IN  /\ MappedWithin(o.top, contentRect.y, box[1], contentRect.h)
               /\ MappedWithin(o.left, contentRect.x, box[2], contentRect.w)
               /\ MappedWithin(o.width, NumInt(0), box[4] - box[2], contentRect.w)
               /\ MappedWithin(o.height, NumInt(0), box[3] - box[1], contentRect.h)
    /\ (ExampleBox \in MappedBoxes /\ contentRect = ExampleRect)
           => OverlayOf(ExampleBox, contentRect) = ExampleOverlay

\* The box of the example is drawn over the rectangle of the example.
C21_Witness == ExampleBox \in MappedBoxes /\ contentRect = ExampleRect

\* |a - b| <= scale / 2^51, for finite numbers a and b and a magnitude scale
Within(a, b, scale) == BigLeq(ExactAdd(a, NumNeg(b)).mag, Over2To(scale, 51))

\* The rectangle r is the contain fit of a source of nw by nh in a container
\* of cw by ch, exactly: the formulas of the two branches, inside the
\* container, centered, of the source's aspect ratio.
ContainFitExactly(r, cw, ch, nw, nh) ==
    /\ IF ch > 0 /\ cw * nh > nw * ch
       THEN /\ r.h = NumInt(ch) /\ r.y = NumInt(0)
            /\ ExactTimes(r.w, nh) = ExactTimes(NumInt(ch), nw)
            /\ ExactTimes(r.x, 2) = ExactAdd(NumInt(cw), NumNeg(r.w))
       ELSE /\ r.w = NumInt(cw) /\ r.x = NumInt(0)
            /\ ExactTimes(r.h, nw) = ExactTimes(NumInt(cw), nh)
            /\ ExactTimes(r.y, 2) = ExactAdd(NumInt(ch), NumNeg(r.h))
    /\ NumLeq(NumInt(0), r.x) /\ NumLeq(NumInt(0), r.y)
    /\ NumLeq(ExactAdd(r.x, r.w), NumInt(cw)) /\ NumLeq(ExactAdd(r.y, r.h), NumInt(ch))
    /\ ExactAdd(ExactTimes(r.x, 2), r.w) = NumInt(cw)
    /\ ExactAdd(ExactTimes(r.y, 2), r.h) = NumInt(ch)
    /\ ExactTimes(r.w, nh) = ExactTimes(r.h, nw)

\* The same up to the rounding of the arithmetic, one part in 2^51 of the
\* container's sides (times the source's sides where those multiply).
ContainFitWithin(r, cw, ch, nw, nh) ==
    /\ IF ch > 0 /\ cw * nh > nw * ch
       THEN /\ r.h = NumInt(ch) /\ r.y = NumInt(0)
            /\ Within(ExactTimes(r.w, nh), ExactTimes(NumInt(ch), nw),
                      ExactTimes(NumInt(ch), nw).mag)
            /\ Within(ExactTimes(r.x, 2), ExactAdd(NumInt(cw), NumNeg(r.w)), FromInt(cw))
       ELSE /\ r.w = NumInt(cw) /\ r.x = NumInt(0)
            /\ Within(ExactTimes(r.h, nw), ExactTimes(NumInt(cw), nh),
                      ExactTimes(NumInt(cw), nh).mag)
            /\ Within(ExactTimes(r.y, 2), ExactAdd(NumInt(ch), NumNeg(r.h)), FromInt(ch))
    /\ NumLeq(Fin(TRUE, Over2To(FromInt(cw), 51)), r.x)
    /\ NumLeq(Fin(TRUE, Over2To(FromInt(ch), 51)), r.y)
    /\ NumLeq(ExactAdd(r.x, r.w), Fin(FALSE, BigAdd(FromInt(cw), Over2To(FromInt(cw), 51))))
    /\ NumLeq(ExactAdd(r.y, r.h), Fin(FALSE, BigAdd(FromInt(ch), Over2To(FromInt(ch), 51))))
    /\ Within(ExactAdd(ExactTimes(r.x, 2), r.w), NumInt(cw), FromInt(cw))
    /\ Within(ExactAdd(ExactTimes(r.y, 2), r.h), NumInt(ch), FromInt(ch))
    /\ Within(ExactTimes(r.w, nh), ExactTimes(r.h, nw), ExactTimes(r.h, nw).mag)

\* The same, tabulated over the rectangles and sizes of the model.
ContainFitsWithin ==
    [r \in ContentRects, size \in ContainerSizes, natural \in NaturalSizes |->
        natural[1] # 0 => ContainFitWithin(r, size[1], size[2], natural[1], natural[2])]

\* The content rectangle of the example: {x: 200, y: 0, w: 400, h: 400}.
ExampleContainRect ==
    [x |-> NumInt(200), y |-> NumInt(0), w |-> NumInt(400), h |-> NumInt(400)]

\* C22, as stated: over a static image of known size, updateContentRect
\* emits the contain fit given by the two formulas, which lies inside the
\* container, is centered and keeps the source's aspect ratio.
C22_ContainFit ==
    [][\A size \in ContainerSizes, natural \in NaturalSizes :
           (staticImage # Null /\ natural[1] # 0 /\ updateContentRect(size, natural))
               => ContainFitExactly(contentRect', size[1], size[2], natural[1], natural[2])]_vars

\* C22, amended: over a static image of known size, updateContentRect emits
\* the contain fit given by the two formulas up to the rounding of the
\* arithmetic; it lies inside the container, is centered and keeps the
\* source's aspect ratio up to that rounding, and a container of 800 by 400
\* with a source of 1200 by 1200 gives exactly {200, 0, 400, 400}.
C22_ContainFitWithinRounding ==
    [][\A size \in ContainerSizes, natural \in NaturalSizes :
           (staticImage # Null /\ natural[1] # 0 /\ updateContentRect(size, natural))
               => /\ ContainFitsWithin[contentRect', size, natural]
                  /\ (size = <<800, 400>> /\ natural = <<1200, 1200>>)
                         => contentRect' = ExampleContainRect]_vars

\* A static image is shown with the content rectangle of the example.
C22_Witness == staticImage # Null /\ contentRect = ExampleContainRect

\* C23: with no static image (live camera or screen share), updateContentRect
\* emits exactly {x: 0, y: 0, w: containerW, h: containerH}, whatever the
\* natural size of the source.
C23_CoverFitIsContainer ==
    [][\A size \in ContainerSizes, natural \in NaturalSizes :
           (staticImage = Null /\ updateContentRect(size, natural))
               => contentRect' = [x |-> Fin(FALSE, FromInt(0)), y |-> Fin(FALSE, FromInt(0)),
                                  w |-> Fin(FALSE, FromInt(size[1])),
                                  h |-> Fin(FALSE, FromInt(size[2]))]]_vars

\* Over a live source the content rectangle is the 800 by 400 container,
\* which no contain fit of the model's images gives.
C23_Witness ==
    /\ staticImage = Null
    /\ contentRect = [x |-> NumInt(0), y |-> NumInt(0), w |-> NumInt(800), h |-> NumInt(400)]

\* The natural size of the source is unknown or zero, or the container has
\* no width or no height.
Degenerate(size, natural) ==
    natural[1] = 0 \/ natural[2] = 0 \/ size[1] = 0 \/ size[2] = 0

\* C24: for degenerate inputs updateContentRect emits no rectangle, over a
\* static image and over a live source: the content rectangle stays as it was.
C24_DegenerateEmitsNothing ==
    [][\A size \in ContainerSizes, natural \in NaturalSizes :
           (Degenerate(size, natural) /\ updateContentRect(size, natural))
               => contentRect' = contentRect]_vars

\* C25: the font size of every drawn item is within [10, 42] px, for every
\* box (zero-area and inverted ones included), every text and every
\* multiplier of the text-size setting.
C25_FontSizeClamped ==
    contentRect # NoRect =>
        \A k \in RenderedItems : \A m \in Multipliers :
            LET size == getFontSize(translationData.items[k].box_2d,
                                    translationData.items[k].translated, contentRect, m)
            IN  NumLeq(NumInt(10), size) /\ NumLeq(size, NumInt(42))

\* The window c is the centered crop of a raw frame of vw by vh at the aspect
\* ratio of a display of cw by ch, exactly: the formulas of the two branches,
\* the aspect ratio, the centering, and the window within the frame.
CropExactly(c, vw, vh, cw, ch) ==
    /\ IF cw * vh > vw * ch
       THEN /\ c.sw = NumInt(vw) /\ c.sx = NumInt(0)
            /\ ExactTimes(c.sh, cw) = ExactTimes(NumInt(vw), ch)
            /\ ExactTimes(c.sy, 2) = ExactAdd(NumInt(vh), NumNeg(c.sh))
       ELSE /\ c.sh = NumInt(vh) /\ c.sy = NumInt(0)
            /\ ExactTimes(c.sw, ch) = ExactTimes(NumInt(vh), cw)
            /\ ExactTimes(c.sx, 2) = ExactAdd(NumInt(vw), NumNeg(c.sw))
    /\ ExactTimes(c.sw, ch) = ExactTimes(c.sh, cw)
    /\ ExactAdd(ExactTimes(c.sx, 2), c.sw) = NumInt(vw)
    /\ ExactAdd(ExactTimes(c.sy, 2), c.sh) = NumInt(vh)
    /\ NumLeq(NumInt(0), c.sx) /\ NumLeq(NumInt(0), c.sy)
    /\ NumLeq(ExactAdd(c.sx, c.sw), NumInt(vw)) /\ NumLeq(ExactAdd(c.sy, c.sh), NumInt(vh))

\* The same up to the rounding of the arithmetic, one part in 2^51 of the
\* frame's sides (times the display's sides where those multiply).
CropWithin(c, vw, vh, cw, ch) ==
    /\ IF cw * vh > vw * ch
       THEN /\ c.sw = NumInt(vw) /\ c.sx = NumInt(0)
            /\ Within(ExactTimes(c.sh, cw), ExactTimes(NumInt(vw), ch),
                      ExactTimes(NumInt(vw), ch).mag)
            /\ Within(ExactTimes(c.sy, 2), ExactAdd(NumInt(vh), NumNeg(c.sh)), FromInt(vh))
       ELSE /\ c.sh = NumInt(vh) /\ c.sy = NumInt(0)
            /\ Within(ExactTimes(c.sw, ch), ExactTimes(NumInt(vh), cw),
                      ExactTimes(NumInt(vh), cw).mag)
            /\ Within(ExactTimes(c.sx, 2), ExactAdd(NumInt(vw), NumNeg(c.sw)), FromInt(vw))
    /\ Within(ExactTimes(c.sw, ch), ExactTimes(c.sh, cw), ExactTimes(c.sh, cw).mag)
    /\ Within(ExactAdd(ExactTimes(c.sx, 2), c.sw), NumInt(vw), FromInt(vw))
    /\ Within(ExactAdd(ExactTimes(c.sy, 2), c.sh), NumInt(vh), FromInt(vh))
    /\ NumLeq(Fin(TRUE, Over2To(FromInt(vw), 51)), c.sx)
    /\ NumLeq(Fin(TRUE, Over2To(FromInt(vh), 51)), c.sy)
    /\ NumLeq(ExactAdd(c.sx, c.sw), Fin(FALSE, BigAdd(FromInt(vw), Over2To(FromInt(vw), 51))))
    /\ NumLeq(ExactAdd(c.sy, c.sh), Fin(FALSE, BigAdd(FromInt(vh), Over2To(FromInt(vh), 51))))

\* The same, tabulated over the ready videos of the model.
CropsWithin ==
    [video \in DOMAIN CropWindows |->
        CropWithin(CropWindows[video], video.vw, video.vh, video.cw, video.ch)]

\* A capture of this frame from the video was accepted: its call was started.
FrameTaken(frame) ==
    /\ Len(calls') = Len(calls) + 1
    /\ calls'[Len(calls')].img = frame

\* capture() ran over this video, from the effect or from a tick.
Captures(video, frame) == RunEffectsOver(video, frame) \/ AutoTickOver(video, frame)

\* C26, as stated: whenever capture() takes a frame of a ready video, the
\* crop window it draws has the aspect ratio of the display, is centered and
\* lies within the raw frame, as the formulas of the two branches give it.
C26_CropWindow ==
    [][\A video \in Videos, frame \in LiveFrames :
           (VideoReady(video) /\ Captures(video, frame) /\ FrameTaken(frame))
               => CropExactly(CropWindows[video], video.vw, video.vh, video.cw, video.ch)]_vars

\* C26, amended: whenever capture() takes a frame of a ready video, the crop
\* window it draws is the one of the two formulas up to the rounding of the
\* arithmetic; up to that rounding it has the aspect ratio of the display,
\* is centered and lies within the raw frame.
C26_CropWindowWithinRounding ==
    [][\A video \in Videos, frame \in LiveFrames :
           (VideoReady(video) /\ Captures(video, frame) /\ FrameTaken(frame))
               => CropsWithin[video]]_vars

\* A frame of the live video has been captured and its call awaits the
\* answer.
C26_Witness ==
    /\ staticImage = Null /\ isAutoMode /\ appState = SCANNING
    /\ \E i \in 1..Len(calls) : calls[i].img \in LiveFrames /\ calls[i].auto

\* The live source is not ready: the video has no current frame, its size is
\* unknown or zero, or its element is displayed with no width or height.
NotReady(video) ==
    \/ video.readyState < 2
    \/ video.vw = 0 \/ video.vh = 0
    \/ video.cw = 0 \/ video.ch = 0

\* C27: when capture() runs over a live source that is not ready, from the
\* effect or from a tick, no frame is emitted: no call starts, and ScanState,
\* the displayed result and the static image stay as they are.
C27_NotReadyNoCapture ==
    [][\A video \in Videos, frame \in LiveFrames :
           (staticImage = Null /\ NotReady(video) /\ Captures(video, frame))
               => UNCHANGED <<calls, appState, translationData, staticImage>>]_vars

\* Continuous mode is on over a live source with ScanState Idle and the
\* settings closed, its effect has run, and yet no call is in flight and
\* nothing has been displayed: the capture found the video not ready.
C27_Witness ==
    /\ AutoCaptureEnabled /\ autoOrigin = "user"
    /\ ~initDirty /\ ~capDirty
    /\ appState = IDLE /\ ~isSettingsOpen
    /\ calls = <<>> /\ recoveryTimers = <<>>
    /\ translationData = NoResult /\ staticImage = Null

\* The box of the item is missing or has fewer than four coordinates.
Malformed(item) == "box_2d" \notin DOMAIN item \/ Len(item.box_2d) < 4

\* C28: of a displayed result exactly the items whose box is missing or
\* short are skipped; every other item is rendered at the position its own
\* box maps to (pixels of the content rectangle, or percents without one).
C28_MalformedItemsSkipped ==
    (translationData # NoResult /\ ~isSettingsOpen) =>
        /\ DOMAIN RenderedStyles =
               {k \in 1..Len(translationData.items) : ~Malformed(translationData.items[k])}
        /\ \A k \in DOMAIN RenderedStyles :
               RenderedStyles[k] =
                   IF contentRect = NoRect
                   THEN percentBox(translationData.items[k].box_2d)
                   ELSE OverlayOf(translationData.items[k].box_2d, contentRect)

\* A result with a well-formed item after two malformed ones is displayed
\* over a known content rectangle.
C28_Witness ==
    /\ translationData # NoResult /\ ~isSettingsOpen /\ contentRect # NoRect
    /\ Len(translationData.items) = 4
    /\ Malformed(translationData.items[2]) /\ Malformed(translationData.items[3])
    /\ RenderedItems = {1, 4}

\* C29: results are applied in the order in which their captures were
\* issued: a call whose result is applied has no older call still in flight
\* (calls holds the calls in flight, oldest first), but for calls that are
\* alike in every respect.
C29_ResultsInIssueOrder ==
    [][\A i \in 1..Len(calls), resp \in Responses :
           Complete(i, resp) => \A j \in 1..(i - 1) : calls[j] = calls[i]]_vars

\* The contain fits of the images of known size, and the containers whole.
ContainFits ==
    {EmittedRects[TRUE, size, natural] :
        size \in ContainerSizes, natural \in {n \in NaturalSizes : n[1] # 0}}

CoverFits ==
    {[x |-> NumInt(0), y |-> NumInt(0), w |-> NumInt(size[1]), h |-> NumInt(size[2])] :
        size \in ContainerSizes}

InternalStreamSuperseded ==
    internalStream /\ (~internalStream' \/ camPending' < camPending)

\* The step stops the tracks of the internal stream it finds: only the
\* cleanup of the camera initialisation effect calls track.stop(), and it
\* runs when that effect runs again after a run that started the camera.
InternalStreamStopped == initDirty /\ hasCleanup

\* C31: every acquired camera stream is stopped when it is superseded: no
\* step drops or replaces the internal stream without stopping its tracks.
C31_SupersededStreamStopped ==
    [][InternalStreamSuperseded => InternalStreamStopped]_vars

\* C32: exactly one capture source is active: once the effects of a commit
\* have run, a static image and a screen-share stream are never both held,
\* and the camera stream is held only while the camera is the source.
C32_OneSourceActive ==
    Quiet =>
        /\ ~(staticImage # Null /\ screenStream)
        /\ internalStream => CameraWanted

\* What the Geometry Resolver emits for the inputs of a call: the source
\* kind, the container size and the natural size.
Resolved(size, natural) == EmittedRects[staticImage # Null, size, natural]

C34_RecoveryDelayByMode ==
    [][/\ Len(calls') > Len(calls) =>
              RetryDelay(calls'[Len(calls')]) =
                  IF autoOrigin = "manual" THEN ManualRetryDelay ELSE AutoRetryDelay
       /\ \A i \in 1..Len(calls) : \A resp \in Responses :
              (Complete(i, resp) /\ ~Truthy(CallResult(calls[i], resp))) =>
                  recoveryTimers' = Append(recoveryTimers, RetryDelay(calls[i]))]_vars

\* C35: ScanState is Scanning exactly while an inference call is pending:
\* nothing sets it to Idle or Error before the call started by
\* handleFrameCapture has completed.
C35_ScanningWhileCallPending == (appState = SCANNING) <=> (Len(calls) > 0)

\* C36: one manual trigger accepted from Idle causes at most one inference
\* call: in a session with a first manual trigger, a call is started only
\* when none was started before, whether the answer arrives before or after
\* the 100 ms timer has switched the temporary continuous flag off.
C36_OneCallPerManualTrigger ==
    [][Len(calls') > Len(calls) => NothingCapturedYet]_vars

\* C37: continuous mode changes only by user action: a continuous mode the
\* user turned on with toggleAutoMode is turned off only by the user
\* (toggleAutoMode again) or by an upload; never by the reset timer of an
\* earlier manual trigger.
C37_ContinuousModeStaysOn ==
    [][(isAutoMode /\ autoOrigin = "user" /\ ~isAutoMode') =>
          (toggleAutoMode \/ FileLoaded)]_vars

\* A result object: it has an items sequence and a summary.
IsResultObject(value) == DOMAIN value = {"items", "summary"}

\* C38: every value stored as the displayed result is a result object: a
\* body that is valid JSON but no result object (null, a number, an array,
\* an object without items) is never put in translationData and so never
\* reaches the overlay, which iterates data.items.
C38_DisplayedResultWellFormed ==
    /\ translationData = NoResult \/ IsResultObject(translationData)
    /\ ~OverlayThrows

\* The store holds, under 'jp_kr_history', the history as it is after the step.
StoreMirrors == persisted' = [set |-> TRUE, value |-> history']

\* A step that is a save of the result: saveToHistory is called with it, by
\* the save button or by the completion of the i-th call.
ManualSaveStep == ManualSave(TRUE) \/ ManualSave(FALSE)

AutoSaveStoring(i, resp) ==
    /\ Truthy(CallResult(calls[i], resp))
    /\ AutoSaves(calls[i], CallResult(calls[i], resp))
    /\ \/ CompleteStoring(i, CallResult(calls[i], resp), TRUE)
       \/ CompleteStoring(i, CallResult(calls[i], resp), FALSE)

\* What a save of the result must leave: nothing changed or written when it
\* is skipped; the store equal to the new history when the history changed;
\* and whatever is written is the new history. With tolerated, a save that
\* changed the history may also leave the store as it was (the write was
\* refused).
SaveLeaves(result, tolerated) ==
    /\ ~SaveWrites(history, result) => UNCHANGED <<history, persisted>>
    /\ history' # history => StoreMirrors \/ (tolerated /\ persisted' = persisted)
    /\ persisted' # persisted => StoreMirrors

SavesLeave(tolerated) ==
    /\ ManualSaveStep => SaveLeaves(translationData, tolerated)
    /\ Len(calls') < Len(calls) =>
           \A i \in 1..Len(calls) : \A resp \in Responses :
               AutoSaveStoring(i, resp) => SaveLeaves(CallResult(calls[i], resp), tolerated)
    /\ clearHistory => (history' = <<>> /\ persisted' = NothingPersisted)
    /\ persisted' # persisted =>
           \/ clearHistory
           \/ ManualSaveStep
           \/ \E i \in 1..Len(calls) : \E resp \in Responses : AutoSaveStoring(i, resp)

====
